---- MODULE Spec2Model ----
(***************************************************************************)
(* dc_bundle crate root (crates/dc_bundle/src/lib.rs): the two-variant     *)
(* Error enum, its derived Display (thiserror #[error("...")] format       *)
(* strings) and the Result<T> alias, exercised by a decode operation that  *)
(* is a chain of Result-returning steps joined by the `?` operator.        *)
(*                                                                         *)
(* Text is a sequence of one-character strings.                            *)
(***************************************************************************)
EXTENDS Naturals, Sequences, FiniteSets

VARIABLES
    stack,    \* call stack of the decode operation, outermost frame first
    ret,      \* the Result a callee has just returned to the top frame
    outcome,  \* the Result received by the caller of the operation
    raised,   \* the Error value constructed by the failing step
    ran,      \* number of steps that have started
    msg       \* the caller's diagnostic: Display of the surfaced error

vars == <<stack, ret, outcome, raised, ran, msg>>

----------------------------------------------------------------------------
(* Bounds *)

MaxPieces == 2      \* a name is a concatenation of at most MaxPieces pieces
MaxDepth == 2       \* nesting depth of Result-returning calls
ChainLen == 2       \* steps in each function's chain

----------------------------------------------------------------------------
(* Format strings of the #[error] attributes *)

\* the attribute without its placeholder
MissingFieldFmtNoPlaceholder ==
    <<"M","i","s","s","i","n","g"," ","f","i","e","l","d">>

\* #[error("Missing field {field}")]
MissingFieldFmt ==
    <<"M","i","s","s","i","n","g"," ","f","i","e","l","d"," ",
      "{","f","i","e","l","d","}">>

\* the attribute without its placeholder
UnknownEnumVariantFmtNoPlaceholder ==
    <<"U","n","k","n","o","w","n"," ","e","n","u","m"," ",
      "v","a","r","i","a","n","t">>

\* the attribute with "for" left out
UnknownEnumVariantFmtNoFor ==
    <<"U","n","k","n","o","w","n"," ","e","n","u","m"," ",
      "v","a","r","i","a","n","t"," ",
      "{","e","n","u","m","_","n","a","m","e","}">>

\* the attribute pasted from the variant above, only the placeholder renamed
UnknownEnumVariantFmtPasted ==
    <<"M","i","s","s","i","n","g"," ","f","i","e","l","d"," ",
      "{","e","n","u","m","_","n","a","m","e","}">>

\* #[error("Unknown enum variant for {enum_name}")]
UnknownEnumVariantFmt ==
    <<"U","n","k","n","o","w","n"," ","e","n","u","m"," ",
      "v","a","r","i","a","n","t"," ","f","o","r"," ",
      "{","e","n","u","m","_","n","a","m","e","}">>

\* names of the payload fields, as text
FieldIdent == <<"f","i","e","l","d">>
EnumNameIdent == <<"e","n","u","m","_","n","a","m","e">>

----------------------------------------------------------------------------
(* Input names *)

LikeMissingPrefix == <<"M","i","s","s","i","n","g"," ","f","i","e","l","d"," ">>
LikeUnknownPrefix ==
    <<"U","n","k","n","o","w","n"," ","e","n","u","m"," ",
      "v","a","r","i","a","n","t"," ","f","o","r"," ">>

Pieces ==
    { <<"x">>, <<" ">>, <<"{">> \o FieldIdent \o <<"}">>,
      LikeMissingPrefix, LikeUnknownPrefix }

RECURSIVE NamesUpTo(_)
NamesUpTo(n) ==
    IF n = 0 THEN { <<>> }
    ELSE LET shorter == NamesUpTo(n - 1)
         IN  shorter \cup { s \o p : s \in shorter, p \in Pieces }

Names == NamesUpTo(MaxPieces)

\* values of the T of Result<T>
T == {1, 2}

----------------------------------------------------------------------------
(* pub enum Error *)

\* a variant that carries no name
MissingFieldErrorUnit(f) == [kind |-> "MissingFieldError"]

MissingFieldError(f) == [kind |-> "MissingFieldError", field |-> f]

UnknownEnumVariant(e) == [kind |-> "UnknownEnumVariant", enum_name |-> e]

NoError == [kind |-> "None"]

\* index of the first "}" at or after i (Len(fmt) + 1 when there is none)
RECURSIVE CloseBrace(_, _)
CloseBrace(fmt, i) ==
    IF i > Len(fmt) THEN i
    ELSE IF fmt[i] = "}" THEN i
    ELSE CloseBrace(fmt, i + 1)

\* the placeholder formatted with {ident:?}: the value comes out quoted
RECURSIVE WriteDebug(_, _, _, _)
WriteDebug(fmt, i, ident, value) ==
    IF i > Len(fmt) THEN <<>>
    ELSE IF fmt[i] = "{"
         THEN LET j == CloseBrace(fmt, i)
              IN  (IF SubSeq(fmt, i + 1, j - 1) = ident
                   THEN <<"\"">> \o value \o <<"\"">>
                   ELSE <<>>)
                  \o WriteDebug(fmt, j + 1, ident, value)
         ELSE <<fmt[i]>> \o WriteDebug(fmt, i + 1, ident, value)

\* write!(f, fmt, ident = value): literal text is copied, the placeholder
\* {ident} is replaced by the Display of the String value, which writes it as is
RECURSIVE Write(_, _, _, _)
Write(fmt, i, ident, value) ==
    IF i > Len(fmt) THEN <<>>
    ELSE IF fmt[i] = "{"
         THEN LET j == CloseBrace(fmt, i)
              IN  (IF SubSeq(fmt, i + 1, j - 1) = ident THEN value ELSE <<>>)
                  \o Write(fmt, j + 1, ident, value)
         ELSE <<fmt[i]>> \o Write(fmt, i + 1, ident, value)

\* impl Display for Error, derived by thiserror
Display(e) ==
    IF e.kind = "MissingFieldError"
    THEN Write(MissingFieldFmt, 1, FieldIdent, e.field)
    ELSE Write(UnknownEnumVariantFmt, 1, EnumNameIdent, e.enum_name)

----------------------------------------------------------------------------
(* pub type Result<T> = std::result::Result<T, Error> *)

Ok(v) == [tag |-> "Ok", val |-> v]

\* an error of another type boxed into the channel
ErrBoxed(e) == [tag |-> "Err", err |-> [kind |-> "Other", message |-> e]]

Err(e) == [tag |-> "Err", err |-> e]

None == [tag |-> "None"]

\* unwrap_or_default in place of `?`: the error is dropped and the chain goes on
QuestionIgnoresErr(r) ==
    IF r.tag = "Ok"
    THEN [returns |-> FALSE, value |-> r.val]
    ELSE [returns |-> FALSE, value |-> 1]

\* a catch-all in place of `?`: the function returns a recovered Ok
QuestionRecovers(r) ==
    IF r.tag = "Ok"
    THEN [returns |-> FALSE, value |-> r.val]
    ELSE [returns |-> TRUE, value |-> [tag |-> "Ok", val |-> 1]]

\* the `?` operator on a Result<T>: Ok(v) yields v and the chain goes on,
\* Err(e) makes the enclosing function return Err(From::from(e)), and
\* From<Error> for Error is the identity
Question(r) ==
    IF r.tag = "Ok"
    THEN [returns |-> FALSE, value |-> r.val]
    ELSE [returns |-> TRUE, value |-> Err(r.err)]

----------------------------------------------------------------------------
(* The decode operation *)

Frame(i) == [step |-> i]

Top == stack[Len(stack)]

Pop == SubSeq(stack, 1, Len(stack) - 1)

ReplaceTop(f) == [stack EXCEPT ![Len(stack)] = f]

Idle == stack = <<>> /\ ret = None /\ outcome = None /\ ran = 0

\* a step of the top frame may start
CanStep ==
    /\ stack # <<>>
    /\ ret = None
    /\ Top.step <= ChainLen

Init ==
    /\ stack = <<>>
    /\ ret = None
    /\ outcome = None
    /\ raised = NoError
    /\ ran = 0
    /\ msg = <<>>

\* the caller invokes the operation
Start ==
    /\ Idle
    /\ stack' = <<Frame(1)>>
    /\ UNCHANGED <<ret, outcome, raised, ran, msg>>

\* the current step succeeds with a value
StepOk ==
    /\ CanStep
    /\ \E v \in T : ret' = Ok(v)
    /\ ran' = ran + 1
    /\ UNCHANGED <<stack, outcome, raised, msg>>

\* the current step finds a required field absent
StepMissingField ==
    /\ CanStep
    /\ \E f \in Names :
          /\ raised' = MissingFieldError(f)
          /\ ret' = Err(MissingFieldError(f))
    /\ ran' = ran + 1
    /\ UNCHANGED <<stack, outcome, msg>>

\* the current step finds a discriminant that matches no case
StepUnknownEnum ==
    /\ CanStep
    /\ \E e \in Names :
          /\ raised' = UnknownEnumVariant(e)
          /\ ret' = Err(UnknownEnumVariant(e))
    /\ ran' = ran + 1
    /\ UNCHANGED <<stack, outcome, msg>>

\* the current step is itself a chain: call it
StepCall ==
    /\ CanStep
    /\ Len(stack) < MaxDepth
    /\ stack' = Append(stack, Frame(1))
    /\ ran' = ran + 1
    /\ UNCHANGED <<ret, outcome, raised, msg>>

\* the top frame applies `?` to what its step returned (the unwrapped value
\* of an Ok is consumed by the frame)
ApplyQuestion ==
    /\ stack # <<>>
    /\ ret # None
    /\ LET q == Question(ret)
       IN  IF q.returns
           THEN /\ stack' = Pop
                /\ ret' = q.value
           ELSE /\ stack' = ReplaceTop(Frame(Top.step + 1))
                /\ ret' = None
    /\ UNCHANGED <<outcome, raised, ran, msg>>

\* the chain of the top frame is complete: it returns Ok
ReturnOk ==
    /\ stack # <<>>
    /\ ret = None
    /\ Top.step > ChainLen
    /\ \E v \in T : ret' = Ok(v)
    /\ stack' = Pop
    /\ UNCHANGED <<outcome, raised, ran, msg>>

\* the caller of the operation receives its Result and formats an error
Surface ==
    /\ stack = <<>>
    /\ ret # None
    /\ outcome = None
    /\ outcome' = ret
    /\ ret' = None
    /\ msg' = IF ret.tag = "Err" THEN Display(ret.err) ELSE <<>>
    /\ UNCHANGED <<stack, raised, ran>>

Next ==
    \/ Start
    \/ StepOk
    \/ StepMissingField
    \/ StepUnknownEnum
    \/ StepCall
    \/ ApplyQuestion
    \/ ReturnOk
    \/ Surface

Spec == Init /\ [][Next]_vars

----------------------------------------------------------------------------
(* Properties *)

\* s occurs in m as a contiguous run of characters
Contains(m, s) ==
    \E i \in 0..Len(m) :
        /\ i + Len(s) <= Len(m)
        /\ SubSeq(m, i + 1, i + Len(s)) = s

IsText(s) == s \in Seq(STRING)

IsErrorValue(x) ==
    \/ /\ x.kind = "MissingFieldError"
       /\ DOMAIN x = {"kind", "field"}
       /\ IsText(x.field)
    \/ /\ x.kind = "UnknownEnumVariant"
       /\ DOMAIN x = {"kind", "enum_name"}
       /\ IsText(x.enum_name)

IsResultValue(r) ==
    \/ /\ r.tag = "Ok"
       /\ DOMAIN r = {"tag", "val"}
       /\ r.val \in T
    \/ /\ r.tag = "Err"
       /\ DOMAIN r = {"tag", "err"}
       /\ IsErrorValue(r.err)

SurfacedMissingField ==
    /\ outcome.tag = "Err"
    /\ outcome.err.kind = "MissingFieldError"

SurfacedUnknownEnum ==
    /\ outcome.tag = "Err"
    /\ outcome.err.kind = "UnknownEnumVariant"

\* C1: the formatted message of MissingFieldError{field: f} contains f as a
\* contiguous substring, for every field name f
C1_MissingFieldMessageContainsField ==
    SurfacedMissingField => Contains(msg, outcome.err.field)

C1_Witness ==
    /\ SurfacedMissingField
    /\ outcome.err.field = <<"x">> \o LikeUnknownPrefix
    /\ Contains(msg, outcome.err.field)

\* C2: the formatted message of UnknownEnumVariant{enum_name: e} contains e as
\* a contiguous substring, for every enum name e
C2_UnknownEnumMessageContainsName ==
    SurfacedUnknownEnum => Contains(msg, outcome.err.enum_name)

C2_Witness ==
    /\ SurfacedUnknownEnum
    /\ outcome.err.enum_name = <<" ", "x">>
    /\ Contains(msg, outcome.err.enum_name)

\* C3: while an Err is in flight no step of the chain starts, every frame hands
\* the same Err(x) to its caller, and the caller of the operation receives
\* Err(x) with the variant and payload the failing step constructed
C3_ErrShortCircuitsUnchanged ==
    [][(ret.tag = "Err") =>
          /\ ran' = ran
          /\ raised' = raised
          /\ IF stack = <<>>
             THEN outcome' = Err(raised) /\ outcome' = ret
             ELSE ret' = Err(raised) /\ ret' = ret /\ Len(stack') = Len(stack) - 1]_vars

C3_Witness ==
    /\ outcome = Err(raised)
    /\ raised = UnknownEnumVariant(<<"x", " ">>)
    /\ ran = 3

\* C4: both error kinds are terminal: once an error has been raised no step is
\* started again, no frame is re-entered, no Ok value takes the error's place,
\* and the outcome the caller gets is that error
C4_ErrorIsTerminal ==
    [][(raised # NoError) =>
          /\ ran' = ran
          /\ Len(stack') <= Len(stack)
          /\ ret'.tag # "Ok"
          /\ outcome'.tag # "Ok"
          /\ (outcome' # None => outcome'.err = raised)]_vars

C4_Witness ==
    /\ raised.kind = "MissingFieldError"
    /\ outcome.tag = "Err"
    /\ outcome.err = raised
    /\ stack = <<>>
    /\ ran = 1

ErrorValuesInState ==
    ({raised} \ {NoError})
        \cup (IF ret.tag = "Err" THEN {ret.err} ELSE {})
        \cup (IF outcome.tag = "Err" THEN {outcome.err} ELSE {})

\* C5: every Error value is one of the two variants and carries exactly one
\* text payload, field for MissingFieldError and enum_name for UnknownEnumVariant
C5_ErrorIsOneOfTwoVariantsWithName ==
    \A x \in ErrorValuesInState : IsErrorValue(x)

C5_Witness ==
    /\ raised.kind = "MissingFieldError"
    /\ raised.field = <<>>
    /\ ret = Err(raised)
    /\ Len(stack) = 2

\* C6: every value in the Result channel is Ok(v) with v of T or Err(x) with x
\* one of the two Error variants
C6_ResultIsOkOrErrOfError ==
    /\ ret # None => IsResultValue(ret)
    /\ outcome # None => IsResultValue(outcome)

C6_Witness ==
    /\ ret.tag = "Err"
    /\ ret.err.kind = "UnknownEnumVariant"
    /\ Len(stack) = 1
    /\ ran = 2

\* C7: the message of MissingFieldError{field: f} is exactly "Missing field "
\* followed by f, also for the empty f
C7_MissingFieldMessageExact ==
    SurfacedMissingField =>
        msg = <<"M","i","s","s","i","n","g"," ","f","i","e","l","d"," ">>
                  \o outcome.err.field

C7_Witness ==
    /\ SurfacedMissingField
    /\ outcome.err.field = <<"{">> \o FieldIdent \o <<"}">>
    /\ Len(msg) = 21

\* C8: the message of UnknownEnumVariant{enum_name: e} is exactly
\* "Unknown enum variant for " followed by e
C8_UnknownEnumMessageExact ==
    SurfacedUnknownEnum =>
        msg = <<"U","n","k","n","o","w","n"," ","e","n","u","m"," ",
                "v","a","r","i","a","n","t"," ","f","o","r"," ">>
                  \o outcome.err.enum_name

C8_Witness ==
    /\ SurfacedUnknownEnum
    /\ outcome.err.enum_name = <<"{">> \o FieldIdent \o <<"}", "x">>
    /\ Len(msg) = 33

\* the messages of every MissingFieldError and of every UnknownEnumVariant
MissingFieldMessages == { Display(MissingFieldError(f)) : f \in Names }

UnknownEnumMessages == { Display(UnknownEnumVariant(e)) : e \in Names }

\* C9: the message of a MissingFieldError never equals the message of an
\* UnknownEnumVariant, whatever the two names are
C9_MessagesOfTheTwoKindsDiffer ==
    /\ SurfacedMissingField => msg \notin UnknownEnumMessages
    /\ SurfacedUnknownEnum => msg \notin MissingFieldMessages

C9_Witness ==
    /\ SurfacedMissingField
    /\ outcome.err.field = LikeUnknownPrefix
    /\ msg = LikeMissingPrefix \o LikeUnknownPrefix

====
